---- MODULE Spec2Model ----
(***************************************************************************)
(* Model of the LinkedIn MCP server core: the token store (database.py),   *)
(* the service registry (services/registry.py) and the LinkedIn service    *)
(* (services/linkedin_service.py).                                         *)
(*                                                                         *)
(* Time is a discrete clock `now` standing for datetime.utcnow().          *)
(* database_initialized is the global flag of main.py.                     *)
(* Python None is the string None for optional text values and NULL (-1)   *)
(* for the optional expires_at timestamp; a missing row is NoToken.        *)
(***************************************************************************)
EXTENDS Integers, Sequences, FiniteSets, TLC

VARIABLES rows, now, procs, services, ret, database_initialized

vars == <<rows, now, procs, services, ret, database_initialized>>

(* ---------------------------- bounds ----------------------------------- *)

\* last instant of the discrete clock
MaxTime == 1

\* the callers of store_token that can be in flight at the same time
Procs == {1, 2}

(* ------------------------- value domains ------------------------------- *)

None == "None"

NULL == -1

NoToken == [none |-> TRUE]

NoResponse == [none |-> TRUE]

\* ServiceResponse.data left at its default None
NoData == [none |-> TRUE]

\* the JSON object a remote call answers with
Json(body) == [json |-> body]

Users == {"alice", "default_user"}


\* token payloads as returned by the provider: dictionaries whose optional
\* keys (expires_in, refresh_token, token_type, scope) may be missing
PayloadA == [access_token |-> "tokA", expires_in |-> 0,
             refresh_token |-> "refreshA", scope |-> "openid profile"]

PayloadB == [access_token |-> "tokB"]

PayloadC == [access_token |-> "tokC", expires_in |-> 1, token_type |-> "MAC"]

\* the (user_id, token_data, email) arguments store_token is called with
StoreArgs == {<<"alice", PayloadA, "a@example.com">>, <<"alice", PayloadB, None>>,
              <<"alice", PayloadC, None>>, <<"default_user", PayloadC, None>>}

(* --------------------------- database.py ------------------------------- *)

\* dict.get(key, default)
DictGet(d, key, default) == IF key \in DOMAIN d THEN d[key] ELSE default

\* the comparison with < in place of <=
SqlLe_strict(column, value) == column # NULL /\ column < value

\* SQL comparison column <= value: NULL <= value is NULL, which a WHERE
\* clause treats as not satisfied
SqlLe(column, value) == column # NULL /\ column <= value

\* select(LinkedInToken).where(LinkedInToken.user_id == user_id)
SelectByUser(table, user_id) == {r \in table : r.user_id = user_id}

\* Result.scalar_one_or_none()
ScalarOneOrNone(result) == IF result = {} THEN NoToken ELSE CHOOSE r \in result : TRUE

\* expires_at as computed at the top of store_token
ComputeExpiresAt(token_data, t) ==
    IF "expires_in" \in DOMAIN token_data THEN t + token_data["expires_in"] ELSE NULL

\* a table without the primary key: no insert is rejected
PrimaryKeyViolated_never(table, user_id) == FALSE

\* the primary key constraint of linkedin_tokens.user_id: an INSERT of a
\* user_id that is already present is rejected (IntegrityError)
PrimaryKeyViolated(table, user_id) == \E r \in table : r.user_id = user_id

\* LinkedInToken(...) added and committed; created_at and updated_at take
\* their column default datetime.utcnow
NewToken(user_id, token_data, email, expires_at, t) ==
    [user_id       |-> user_id,
     access_token  |-> token_data["access_token"],
     refresh_token |-> DictGet(token_data, "refresh_token", None),
     token_type    |-> DictGet(token_data, "token_type", "Bearer"),
     expires_at    |-> expires_at,
     scope         |-> DictGet(token_data, "scope", None),
     email         |-> email,
     created_at    |-> t,
     updated_at    |-> t]

\* an update in two statements, of which only the first has been committed:
\* the new access_token beside the old refresh_token, scope and email
UpdatedToken_torn(r, token_data, email, expires_at, t) ==
    [r EXCEPT !.access_token  = token_data["access_token"],
              !.expires_at    = expires_at,
              !.updated_at    = t]

\* an update that keeps the old refresh_token, scope and email where this
\* call supplies none
UpdatedToken_coalesce(r, token_data, email, expires_at, t) ==
    [r EXCEPT !.access_token  = token_data["access_token"],
              !.refresh_token = DictGet(token_data, "refresh_token", r.refresh_token),
              !.token_type    = DictGet(token_data, "token_type", "Bearer"),
              !.expires_at    = expires_at,
              !.scope         = DictGet(token_data, "scope", r.scope),
              !.email         = IF email = None THEN r.email ELSE email,
              !.updated_at    = t]

\* an update that also rewrites created_at
UpdatedToken_recreated(r, token_data, email, expires_at, t) ==
    [r EXCEPT !.access_token  = token_data["access_token"],
              !.refresh_token = DictGet(token_data, "refresh_token", None),
              !.token_type    = DictGet(token_data, "token_type", "Bearer"),
              !.expires_at    = expires_at,
              !.scope         = DictGet(token_data, "scope", None),
              !.email         = email,
              !.created_at    = t,
              !.updated_at    = t]

\* update(LinkedInToken).where(user_id == ...).values(...) applied to one row
UpdatedToken(r, token_data, email, expires_at, t) ==
    [r EXCEPT !.access_token  = token_data["access_token"],
              !.refresh_token = DictGet(token_data, "refresh_token", None),
              !.token_type    = DictGet(token_data, "token_type", "Bearer"),
              !.expires_at    = expires_at,
              !.scope         = DictGet(token_data, "scope", None),
              !.email         = email,
              !.updated_at    = t]

\* an UPDATE without its WHERE clause: every row takes the new values
UpdateRows_all(table, user_id, token_data, email, expires_at, t) ==
    {UpdatedToken(r, token_data, email, expires_at, t) : r \in table}

\* the UPDATE statement applied to the table
UpdateRows(table, user_id, token_data, email, expires_at, t) ==
    {IF r.user_id = user_id THEN UpdatedToken(r, token_data, email, expires_at, t) ELSE r
        : r \in table}

\* a delete without its WHERE clause
DeleteRows_all(table, user_id) == {}

\* delete(LinkedInToken).where(LinkedInToken.user_id == user_id)
DeleteRows(table, user_id) == {r \in table : r.user_id # user_id}

\* a sweep that takes every row with an expires_at, whatever the time
ExpiredRows_dated(table, t) == {r \in table : r.expires_at # NULL}

\* the rows matched by cleanup_expired_tokens' WHERE clause
ExpiredRows(table, t) == {r \in table : SqlLe(r.expires_at, t)}

\* the expiry test with = in place of <=: a token counts as expired only at
\* the very instant of its expires_at
IsExpired_instant(token, t) == token.expires_at # NULL /\ token.expires_at = t

\* the expiry test with < in place of <=
IsExpired_strict(token, t) == token.expires_at # NULL /\ token.expires_at < t

\* the expiry test of get_valid_token
IsExpired(token, t) == token.expires_at # NULL /\ token.expires_at <= t

\* get_token
GetToken(table, user_id) == ScalarOneOrNone(SelectByUser(table, user_id))

\* get_valid_token
GetValidToken(table, user_id, t) ==
    LET token == GetToken(table, user_id) IN
    IF token = NoToken THEN NoToken
    ELSE IF IsExpired(token, t) THEN NoToken
    ELSE token

(* ---------------------------- services/base.py ------------------------ *)

\* ServiceResponse(success, data, error); data and error default to None
ServiceResponse(success, data, error) == [success |-> success, data |-> data, error |-> error]

(* ---------------------- services/linkedin_service.py ------------------- *)

\* Python truthiness of an optional string: None and "" are falsy
Truthy(v) == v # None /\ v # ""

\* what an operation body hands back to handle_request: a returned response
\* or a raised exception, with the outbound calls it made (each with the
\* bearer token it carried and its outcome) and the number of token store reads
Returned(response, calls, store_reads) ==
    [raised |-> FALSE, msg |-> None, caught |-> None, response |-> response,
     calls |-> calls, store_reads |-> store_reads]

Raised(msg, calls, store_reads) ==
    [raised |-> TRUE, msg |-> msg, caught |-> None, response |-> NoResponse,
     calls |-> calls, store_reads |-> store_reads]

\* an outbound call through requests (_make_authenticated_request puts the
\* token in the Authorization header) or through the python3-linkedin SDK
\* (_get_linkedin_client puts it in authentication.token)
HttpCall(token, endpoint, outcome) ==
    [via |-> "http", token |-> token, endpoint |-> endpoint, outcome |-> outcome]

SdkCall(token, endpoint, outcome) ==
    [via |-> "sdk", token |-> token, endpoint |-> endpoint, outcome |-> outcome]

\* outcomes of a remote call: "ok", an HTTP error status raised by
\* response.raise_for_status(), or a ConnectionError raised by requests
HttpOutcomes == {"ok", "403", "500", "conn"}

SdkOutcomes == {"ok", "error"}

\* str(e) of the exception a failed call raises
HttpMsg(outcome) ==
    IF outcome = "403" THEN "403 Client Error"
    ELSE IF outcome = "500" THEN "500 Server Error"
    ELSE "Connection refused"

SdkMsg == "SDK error"

StoreFaultMsg == "database is locked"

NoTokenError == "No valid stored token found. Please authenticate first."

\* a resolution that prefers the stored token and uses the inline one only
\* when no valid token is stored
ResolveToken_stored_first(params, table, t, store_fault) ==
    LET access_token == DictGet(params, "access_token", None)
        user_id      == DictGet(params, "user_id", "default_user")
        stored_token == GetValidToken(table, user_id, t)
    IN  IF store_fault
        THEN [kind |-> "raise", token |-> None, store_reads |-> 1]
        ELSE IF stored_token # NoToken
        THEN [kind |-> "token", token |-> stored_token.access_token, store_reads |-> 1]
        ELSE IF Truthy(access_token)
        THEN [kind |-> "token", token |-> access_token, store_reads |-> 1]
        ELSE [kind |-> "fail", token |-> None, store_reads |-> 1]

\* the credential resolution every authenticated operation starts with:
\*   access_token = params.get("access_token")
\*   user_id = params.get("user_id", "default_user")
\*   if not access_token: stored_token = await get_valid_token(user_id) ...
ResolveToken(params, table, t, store_fault) ==
    LET access_token == DictGet(params, "access_token", None)
        user_id      == DictGet(params, "user_id", "default_user")
    IN  IF Truthy(access_token)
        THEN [kind |-> "token", token |-> access_token, store_reads |-> 0]
        ELSE IF store_fault
        THEN [kind |-> "raise", token |-> None, store_reads |-> 1]
        ELSE LET stored_token == GetValidToken(table, user_id, t) IN
             IF stored_token = NoToken
             THEN [kind |-> "fail", token |-> None, store_reads |-> 1]
             ELSE [kind |-> "token", token |-> stored_token.access_token, store_reads |-> 1]

\* the shared prologue: no credential gives the NoTokenError response, a
\* store fault propagates, otherwise the operation goes on to `body`, what
\* it does with the token
WithToken(cred, body) ==
    IF cred.kind = "raise" THEN Raised(StoreFaultMsg, <<>>, cred.store_reads)
    ELSE IF cred.kind = "fail"
    THEN Returned(ServiceResponse(FALSE, NoData, NoTokenError), <<>>, cred.store_reads)
    ELSE body

\* _get_profile and _get_user_info: one GET, any exception becomes a failure
\* response with the given prefix
SingleGet(cred, endpoint, prefix, env) ==
    LET Body(token) ==
            IF env.r1 = "ok"
            THEN Returned(ServiceResponse(TRUE, Json(endpoint), None),
                          <<HttpCall(token, endpoint, env.r1)>>, cred.store_reads)
            ELSE Returned(ServiceResponse(FALSE, NoData, prefix \o HttpMsg(env.r1)),
                          <<HttpCall(token, endpoint, env.r1)>>, cred.store_reads)
    IN  WithToken(cred, Body(cred.token))

GetProfile(params, table, t, env) ==
    SingleGet(ResolveToken(params, table, t, env.store_fault), "me?projection",
              "Profile fetch failed: ", env)

GetUserInfo(params, table, t, env) ==
    SingleGet(ResolveToken(params, table, t, env.store_fault), "me?projection",
              "Failed to fetch user info: ", env)

\* _get_certifications, _get_courses, _get_experience: one GET; an HTTPError
\* with status 403 gives the permission message, any other HTTPError the
\* generic one, any other exception the "unexpected error" one
ProfileSection(cred, section, denied, env) ==
    LET Body(token) ==
            IF env.r1 = "ok"
            THEN Returned(ServiceResponse(TRUE, Json(section), None),
                          <<HttpCall(token, "me?projection", env.r1)>>, cred.store_reads)
            ELSE IF env.r1 = "403"
            THEN Returned(ServiceResponse(FALSE, NoData, denied),
                          <<HttpCall(token, "me?projection", env.r1)>>, cred.store_reads)
            ELSE IF env.r1 = "conn"
            THEN Returned(ServiceResponse(FALSE, NoData,
                              "An unexpected error occurred while fetching " \o section
                                 \o ": " \o HttpMsg(env.r1)),
                          <<HttpCall(token, "me?projection", env.r1)>>, cred.store_reads)
            ELSE Returned(ServiceResponse(FALSE, NoData,
                              "Failed to fetch " \o section \o ": " \o HttpMsg(env.r1)
                                 \o ". Check LinkedIn API documentation for correct endpoint and permissions."),
                          <<HttpCall(token, "me?projection", env.r1)>>, cred.store_reads)
    IN  WithToken(cred, Body(cred.token))

GetCertifications(params, table, t, env) ==
    ProfileSection(ResolveToken(params, table, t, env.store_fault), "certifications",
        "Permission denied. Your access token may not have the necessary permissions (e.g., 'r_basicprofile') for certifications. Also, specific profile fields might require special access or be limited.",
        env)

GetCourses(params, table, t, env) ==
    ProfileSection(ResolveToken(params, table, t, env.store_fault), "courses",
        "Permission denied. Your access token may not have the necessary permissions for courses. Also, specific profile fields might require special access or be limited.",
        env)

GetExperience(params, table, t, env) ==
    ProfileSection(ResolveToken(params, table, t, env.store_fault), "job experience",
        "Permission denied. Your access token may not have the necessary permissions for job experience. Also, specific profile fields might require special access or be limited.",
        env)

\* _get_connections: the SDK first, then the direct request as a fallback
GetConnections(params, table, t, env) ==
    LET cred == ResolveToken(params, table, t, env.store_fault)
        Body(token) ==
            IF env.sdk = "ok"
            THEN Returned(ServiceResponse(TRUE, Json("connections"), None),
                          <<SdkCall(token, "get_connections", env.sdk)>>, cred.store_reads)
            ELSE IF env.r1 = "ok"
            THEN Returned(ServiceResponse(TRUE, Json("connections"), None),
                          <<SdkCall(token, "get_connections", env.sdk),
                            HttpCall(token, "connections?q=viewer", env.r1)>>, cred.store_reads)
            ELSE Returned(ServiceResponse(FALSE, NoData,
                              "Connections fetch failed via SDK and direct request: " \o SdkMsg
                                 \o " (fallback error: " \o HttpMsg(env.r1)
                                 \o "). Note: Connections API access is often restricted by LinkedIn."),
                          <<SdkCall(token, "get_connections", env.sdk),
                            HttpCall(token, "connections?q=viewer", env.r1)>>, cred.store_reads)
    IN  WithToken(cred, Body(cred.token))

\* _get_posts: the SDK first, then userinfo and ugcPosts as a fallback
GetPosts(params, table, t, env) ==
    LET cred == ResolveToken(params, table, t, env.store_fault)
        Failed(r) == "Posts fetch failed via SDK and direct request: " \o SdkMsg
                        \o " (fallback error: " \o HttpMsg(r) \o ")"
        Body(token) ==
            IF env.sdk = "ok"
            THEN Returned(ServiceResponse(TRUE, Json("posts"), None),
                          <<SdkCall(token, "get_network_updates", env.sdk)>>, cred.store_reads)
            ELSE IF env.r1 # "ok"
            THEN Returned(ServiceResponse(FALSE, NoData, Failed(env.r1)),
                          <<SdkCall(token, "get_network_updates", env.sdk),
                            HttpCall(token, "../userinfo", env.r1)>>, cred.store_reads)
            ELSE IF env.r2 # "ok"
            THEN Returned(ServiceResponse(FALSE, NoData, Failed(env.r2)),
                          <<SdkCall(token, "get_network_updates", env.sdk),
                            HttpCall(token, "../userinfo", env.r1),
                            HttpCall(token, "ugcPosts?q=authors", env.r2)>>, cred.store_reads)
            ELSE Returned(ServiceResponse(TRUE, Json("posts"), None),
                          <<SdkCall(token, "get_network_updates", env.sdk),
                            HttpCall(token, "../userinfo", env.r1),
                            HttpCall(token, "ugcPosts?q=authors", env.r2)>>, cred.store_reads)
    IN  WithToken(cred, Body(cred.token))

\* _create_post: the credential is resolved first, then content is checked,
\* then userinfo is read and the post is submitted
CreatePost(params, table, t, env) ==
    LET cred == ResolveToken(params, table, t, env.store_fault)
        content == DictGet(params, "content", None)
        Body(token) ==
            IF ~Truthy(content)
            THEN Returned(ServiceResponse(FALSE, NoData, "Post content is required"),
                          <<>>, cred.store_reads)
            ELSE IF env.r1 # "ok"
            THEN Returned(ServiceResponse(FALSE, NoData, "Failed to create post: " \o HttpMsg(env.r1)),
                          <<HttpCall(token, "../userinfo", env.r1)>>, cred.store_reads)
            ELSE IF env.r2 # "ok"
            THEN Returned(ServiceResponse(FALSE, NoData, "Failed to create post: " \o HttpMsg(env.r2)),
                          <<HttpCall(token, "../userinfo", env.r1), HttpCall(token, "ugcPosts", env.r2)>>,
                          cred.store_reads)
            ELSE Returned(ServiceResponse(TRUE, Json("post"), None),
                          <<HttpCall(token, "../userinfo", env.r1), HttpCall(token, "ugcPosts", env.r2)>>,
                          cred.store_reads)
    IN  WithToken(cred, Body(cred.token))

\* _search_jobs: the SDK only
SearchJobs(params, table, t, env) ==
    LET cred == ResolveToken(params, table, t, env.store_fault)
        Body(token) ==
            IF env.sdk = "ok"
            THEN Returned(ServiceResponse(TRUE, Json("jobs"), None),
                          <<SdkCall(token, "search_job", env.sdk)>>, cred.store_reads)
            ELSE Returned(ServiceResponse(FALSE, NoData,
                              "Job search failed via SDK: " \o SdkMsg
                                 \o ". Note: LinkedIn Job Search API access is highly restricted and likely requires specific partnership permissions."),
                          <<SdkCall(token, "search_job", env.sdk)>>, cred.store_reads)
    IN  WithToken(cred, Body(cred.token))

\* _get_auth_url: authlib builds the URL; a fault of authlib is not caught
\* inside the operation
GetAuthUrl(params, env) ==
    IF env.lib = "ok"
    THEN Returned(ServiceResponse(TRUE, [auth_url |-> "authorization_url",
                                         state |-> DictGet(params, "state", "random_state")], None),
                  <<>>, 0)
    ELSE Raised("authlib error", <<>>, 0)

\* _start_auth_flow: refuses when the client credentials are not configured
StartAuthFlow(params, env) ==
    IF ~env.configured
    THEN Returned(ServiceResponse(FALSE, NoData,
                      "LinkedIn OAuth credentials not configured. Please set LINKEDIN_CLIENT_ID and LINKEDIN_CLIENT_SECRET environment variables."),
                  <<>>, 0)
    ELSE IF env.lib = "ok"
    THEN Returned(ServiceResponse(TRUE, [redirect_url |-> "authorization_url",
                                         state |-> DictGet(params, "state", "secure_random_state"),
                                         message |-> "Visit the redirect_url to authorize the application. After authorization, you'll be redirected to the callback URL where the token will be automatically stored."],
                                  None),
                  <<>>, 0)
    ELSE Raised("authlib error", <<>>, 0)

\* an exchange whose email lookup is not wrapped in try/except: a failed
\* lookup ends the exchange with its exception
ExchangeCodeForToken_email_fatal(params, env) ==
    LET code    == DictGet(params, "code", None)
        user_id == DictGet(params, "user_id", "default_user")
        token   == env.token
        fetch    == [via |-> "authlib", token |-> None, endpoint |-> "accessToken",
                     outcome |-> env.fetch]
        userinfo == HttpCall(token["access_token"], "../userinfo", env.r1)
    IN  IF ~Truthy(code)
        THEN Returned(ServiceResponse(FALSE, NoData, "Authorization code is required"), <<>>, 0)
        ELSE IF env.fetch # "ok"
        THEN Raised("invalid_grant", <<fetch>>, 0)
        ELSE IF env.r1 # "ok"
        THEN Raised(HttpMsg(env.r1), <<fetch, userinfo>>, 0)
        ELSE [raised |-> FALSE, msg |-> None, caught |-> None, response |-> NoResponse,
              calls |-> <<fetch, userinfo>>, store_reads |-> 0,
              pending |-> [user_id    |-> user_id,
                           token_data |-> token,
                           email      |-> env.email]]

\* an exchange without the check of the code
ExchangeCodeForToken_unchecked(params, env) ==
    LET user_id == DictGet(params, "user_id", "default_user")
        token   == env.token
        fetch    == [via |-> "authlib", token |-> None, endpoint |-> "accessToken",
                     outcome |-> env.fetch]
        userinfo == HttpCall(token["access_token"], "../userinfo", env.r1)
    IN  IF env.fetch # "ok"
        THEN Raised("invalid_grant", <<fetch>>, 0)
        ELSE [raised |-> FALSE, msg |-> None, caught |-> None, response |-> NoResponse,
              calls |-> <<fetch, userinfo>>, store_reads |-> 0,
              pending |-> [user_id    |-> user_id,
                           token_data |-> token,
                           email      |-> IF env.r1 = "ok" THEN env.email ELSE None]]

\* an exchange that stores every token under default_user
ExchangeCodeForToken_default_user(params, env) ==
    LET code    == DictGet(params, "code", None)
        token   == env.token
        fetch    == [via |-> "authlib", token |-> None, endpoint |-> "accessToken",
                     outcome |-> env.fetch]
        userinfo == HttpCall(token["access_token"], "../userinfo", env.r1)
    IN  IF ~Truthy(code)
        THEN Returned(ServiceResponse(FALSE, NoData, "Authorization code is required"), <<>>, 0)
        ELSE IF env.fetch # "ok"
        THEN Raised("invalid_grant", <<fetch>>, 0)
        ELSE [raised |-> FALSE, msg |-> None, caught |-> None, response |-> NoResponse,
              calls |-> <<fetch, userinfo>>, store_reads |-> 0,
              pending |-> [user_id    |-> "default_user",
                           token_data |-> token,
                           email      |-> IF env.r1 = "ok" THEN env.email ELSE None]]

\* _exchange_code_for_token up to the call of store_token: the code is
\* checked, authlib fetches the token (a fault is not caught inside the
\* operation), the email lookup is best effort.  `pending` holds the
\* arguments of the store_token call the operation goes on with.
ExchangeCodeForToken(params, env) ==
    LET code    == DictGet(params, "code", None)
        user_id == DictGet(params, "user_id", "default_user")
        token   == env.token
        fetch    == [via |-> "authlib", token |-> None, endpoint |-> "accessToken",
                     outcome |-> env.fetch]
        userinfo == HttpCall(token["access_token"], "../userinfo", env.r1)
    IN  IF ~Truthy(code)
        THEN Returned(ServiceResponse(FALSE, NoData, "Authorization code is required"), <<>>, 0)
        ELSE IF env.fetch # "ok"
        THEN Raised("invalid_grant", <<fetch>>, 0)
        ELSE [raised |-> FALSE, msg |-> None, caught |-> None, response |-> NoResponse,
              calls |-> <<fetch, userinfo>>, store_reads |-> 0,
              pending |-> [user_id    |-> user_id,
                           token_data |-> token,
                           email      |-> IF env.r1 = "ok" THEN env.email ELSE None]]

\* the summary _exchange_code_for_token returns once store_token has
\* returned stored_token
ExchangeSummary(stored_token) ==
    ServiceResponse(TRUE,
        [message    |-> "Token stored successfully in database",
         user_id    |-> stored_token.user_id,
         email      |-> stored_token.email,
         token_type |-> stored_token.token_type,
         expires_at |-> stored_token.expires_at,
         scope      |-> stored_token.scope],
        None)

\* a list that also advertises get_education, an operation of LinkedInAPI
\* that handle_request does not dispatch
AvailableMethods_extra ==
    <<"get_auth_url", "exchange_code_for_token", "get_profile", "get_user_info",
      "get_connections", "get_posts", "create_post", "start_auth_flow",
      "get_certifications", "get_courses", "get_experience", "search_jobs",
      "get_education">>

\* get_available_methods
AvailableMethods ==
    <<"get_auth_url", "exchange_code_for_token", "get_profile", "get_user_info",
      "get_connections", "get_posts", "create_post", "start_auth_flow",
      "get_certifications", "get_courses", "get_experience", "search_jobs">>

\* a final else that leaves the error at its default None
UnknownMethod_no_error(method) ==
    Returned(ServiceResponse(FALSE, NoData, None), <<>>, 0)

\* a final else that raises instead of returning the response
UnknownMethod_raise(method) == Raised("Unknown method: " \o method, <<>>, 0)

\* the final else of handle_request
UnknownMethod(method) ==
    Returned(ServiceResponse(FALSE, NoData, "Unknown method: " \o method), <<>>, 0)

\* the if/elif chain of handle_request
Dispatch(method, params, table, t, env) ==
    IF method = "get_auth_url" THEN GetAuthUrl(params, env)
    ELSE IF method = "exchange_code_for_token" THEN ExchangeCodeForToken(params, env)
    ELSE IF method = "get_profile" THEN GetProfile(params, table, t, env)
    ELSE IF method = "get_user_info" THEN GetUserInfo(params, table, t, env)
    ELSE IF method = "get_connections" THEN GetConnections(params, table, t, env)
    ELSE IF method = "get_posts" THEN GetPosts(params, table, t, env)
    ELSE IF method = "create_post" THEN CreatePost(params, table, t, env)
    ELSE IF method = "start_auth_flow" THEN StartAuthFlow(params, env)
    ELSE IF method = "get_certifications" THEN GetCertifications(params, table, t, env)
    ELSE IF method = "get_courses" THEN GetCourses(params, table, t, env)
    ELSE IF method = "get_experience" THEN GetExperience(params, table, t, env)
    ELSE IF method = "search_jobs" THEN SearchJobs(params, table, t, env)
    ELSE UnknownMethod(method)

\* handle_request without its except clause: the exception propagates
CatchAll_propagate(result) == result

\* the `except Exception` clause of handle_request
CatchAll(result) ==
    IF result.raised
    THEN [result EXCEPT !.raised = FALSE, !.msg = None, !.caught = result.msg,
                        !.response = ServiceResponse(FALSE, NoData,
                                        "LinkedIn API error: " \o result.msg)]
    ELSE result

\* LinkedInService.handle_request
HandleRequest(method, params, table, t, env) ==
    CatchAll(Dispatch(method, params, table, t, env))

IsPending(result) == "pending" \in DOMAIN result

(* ---------------------------- linkedin_api.py -------------------------- *)

\* the dictionaries LinkedInAPI returns
ApiSuccess(data) == [success |-> TRUE, data |-> data]

ApiFailure(error) == [success |-> FALSE, error |-> error]

ApiScopeIssue(error) == [success |-> FALSE, error |-> error, scope_issue |-> TRUE]

\* response.text of an answer whose status is not the expected one
ResponseText(outcome) == IF outcome = "403" THEN "Forbidden" ELSE "Internal Server Error"

ApiNoTokenError == "No valid access token found. Please authenticate first."

\* get_access_token: token_data.access_token if token_data else None
ApiGetAccessToken(table, user_id, t) ==
    LET token_data == GetValidToken(table, user_id, t) IN
    IF token_data = NoToken THEN None ELSE token_data.access_token

\* LinkedInAPI.get_profile: the GET is outside any try, so a ConnectionError
\* of requests propagates to the caller
ApiGetProfile(user_id, table, t, env) ==
    LET access_token == ApiGetAccessToken(table, user_id, t)
        call         == HttpCall(access_token, "userinfo", env.r1)
    IN  IF env.store_fault THEN Raised(StoreFaultMsg, <<>>, 1)
        ELSE IF ~Truthy(access_token) THEN Returned(ApiFailure(ApiNoTokenError), <<>>, 1)
        ELSE IF env.r1 = "conn" THEN Raised(HttpMsg(env.r1), <<call>>, 1)
        ELSE IF env.r1 = "ok" THEN Returned(ApiSuccess(Json("profile")), <<call>>, 1)
        ELSE Returned(ApiFailure("Failed to get profile: " \o ResponseText(env.r1)), <<call>>, 1)

\* LinkedInAPI.get_education and get_courses: the GET is inside a try; a 403
\* answer gives the failure with the scope_issue key
ApiSection(user_id, section, Section, table, t, env) ==
    LET access_token == ApiGetAccessToken(table, user_id, t)
        call         == HttpCall(access_token, "me?projection", env.r1)
    IN  IF env.store_fault THEN Raised(StoreFaultMsg, <<>>, 1)
        ELSE IF ~Truthy(access_token) THEN Returned(ApiFailure(ApiNoTokenError), <<>>, 1)
        ELSE IF env.r1 = "conn"
        THEN Returned(ApiFailure(Section \o " fetch failed: " \o HttpMsg(env.r1)), <<call>>, 1)
        ELSE IF env.r1 = "ok" THEN Returned(ApiSuccess(Json(section)), <<call>>, 1)
        ELSE IF env.r1 = "403"
        THEN Returned(ApiScopeIssue(Section \o " data access denied. LinkedIn requires additional permissions (r_liteprofile/r_basicprofile) or Partner Program access for detailed profile data."),
                      <<call>>, 1)
        ELSE Returned(ApiFailure("Failed to get " \o section \o " data: " \o ResponseText(env.r1)),
                      <<call>>, 1)

ApiGetEducation(user_id, table, t, env) ==
    ApiSection(user_id, "education", "Education", table, t, env)

ApiGetCourses(user_id, table, t, env) ==
    ApiSection(user_id, "courses", "Courses", table, t, env)

\* an exchange that does not look at the status of the answer and stores
\* the token_info in every case
ApiExchangeCodeForToken_any_status(code, user_id, env) ==
    LET post == [via |-> "http", token |-> None, endpoint |-> "accessToken",
                 outcome |-> env.fetch]
    IN  IF env.fetch = "conn" THEN Raised(HttpMsg(env.fetch), <<post>>, 0)
        ELSE [raised |-> FALSE, msg |-> None, caught |-> None, response |-> NoResponse,
              calls |-> <<post>>, store_reads |-> 0,
              pending |-> [user_id |-> user_id, token_data |-> env.token, email |-> None]]

\* LinkedInAPI.exchange_code_for_token up to the call of store_token: the
\* code is posted as it is; a 200 answer is stored without an email
ApiExchangeCodeForToken(code, user_id, env) ==
    LET post == [via |-> "http", token |-> None, endpoint |-> "accessToken",
                 outcome |-> env.fetch]
    IN  IF env.fetch = "conn" THEN Raised(HttpMsg(env.fetch), <<post>>, 0)
        ELSE IF env.fetch # "ok"
        THEN Returned(ApiFailure("Token exchange failed: " \o ResponseText(env.fetch)),
                      <<post>>, 0)
        ELSE [raised |-> FALSE, msg |-> None, caught |-> None, response |-> NoResponse,
              calls |-> <<post>>, store_reads |-> 0,
              pending |-> [user_id |-> user_id, token_data |-> env.token, email |-> None]]

\* the operations of LinkedInAPI that answer with a stored token
ApiAuthMethods == {"get_profile", "get_education", "get_courses"}

ApiMethods == ApiAuthMethods \cup {"exchange_code_for_token"}

\* a call of a method of LinkedInAPI
ApiDispatch(method, args, table, t, env) ==
    IF method = "get_profile" THEN ApiGetProfile(args.user_id, table, t, env)
    ELSE IF method = "get_education" THEN ApiGetEducation(args.user_id, table, t, env)
    ELSE IF method = "get_courses" THEN ApiGetCourses(args.user_id, table, t, env)
    ELSE ApiExchangeCodeForToken(args.code, args.user_id, env)

(* ------------------------------- main.py ------------------------------ *)

\* a flag that is set whether init_database succeeded or not
FlagAfterInit_always(flag, ok) == TRUE

\* _database_initialized once init_database has returned (ok) or raised:
\* the assignment follows the await inside the try, and the except clause
\* leaves the flag as it is
FlagAfterInit(flag, ok) == IF ok THEN TRUE ELSE flag

\* what a call of ensure_database_initialized did: whether it invoked
\* init_database and whether that raised; nothing is raised to the caller
EnsureRet(invoked, failed) ==
    [op |-> "ensure_database_initialized", invoked |-> invoked, failed |-> failed,
     raised |-> FALSE]

(* -------------------------- services/registry.py ---------------------- *)

NoService == [none |-> TRUE]

\* a register_service that keeps the service a name already has
Register_keep(table, service) ==
    [n \in DOMAIN table \cup {service.name} |->
        IF n \in DOMAIN table THEN table[n] ELSE service]

\* register_service: self._services[service.name] = service
Register(table, service) ==
    [n \in DOMAIN table \cup {service.name} |->
        IF n = service.name THEN service ELSE table[n]]

\* unregister_service: delete the key when it is present
Unregister(table, service_name) ==
    IF service_name \in DOMAIN table
    THEN [n \in DOMAIN table \ {service_name} |-> table[n]]
    ELSE table

\* a lookup that falls back to some registered service for an unknown name
GetService_fallback(table, service_name) ==
    IF service_name \in DOMAIN table THEN table[service_name]
    ELSE IF DOMAIN table # {} THEN table[CHOOSE n \in DOMAIN table : TRUE]
    ELSE NoService

\* get_service: self._services.get(service_name)
GetService(table, service_name) ==
    IF service_name \in DOMAIN table THEN table[service_name] ELSE NoService

\* list_services
ListServices(table) == DOMAIN table

\* get_available_methods of a service: the list of LinkedInService, and the
\* list of a stand-in implementation of BaseService
GetAvailableMethods(service) ==
    IF service.impl = "LinkedInService" THEN AvailableMethods ELSE <<"stub_method">>

\* get_all_methods: get_available_methods of every registered service
GetAllMethods(table) == [n \in DOMAIN table |-> GetAvailableMethods(table[n])]

\* the response of handle_request when get_service finds nothing
NotFound(service_name) ==
    ServiceResponse(FALSE, NoData, "Service '" \o service_name \o "' not found")

\* a handle_request that wraps every failure of the service, also a returned
\* one, in its own error message
Route_rewrap(service_name, result) ==
    IF result.raised
    THEN [result EXCEPT !.raised = FALSE, !.msg = None,
                        !.response = ServiceResponse(FALSE, NoData,
                                        "Error in service '" \o service_name \o "': " \o result.msg)]
    ELSE IF ~result.response.success
    THEN [result EXCEPT !.response = ServiceResponse(FALSE, NoData,
                                        "Error in service '" \o service_name \o "': "
                                           \o result.response.error)]
    ELSE result

\* handle_request without its try/except: the exception propagates
Route_propagate(service_name, result) == result

\* the try/except of ServiceRegistry.handle_request around the call of
\* service.handle_request, whose outcome is `result`
Route(service_name, result) ==
    IF result.raised
    THEN [result EXCEPT !.raised = FALSE, !.msg = None,
                        !.response = ServiceResponse(FALSE, NoData,
                                        "Error in service '" \o service_name \o "': " \o result.msg)]
    ELSE result

(* ------------------------- what a call returned ------------------------ *)

\* `ret` holds the outcome of the call that has just returned, until its
\* caller has taken it
NoRet == [op |-> "none"]

\* the outcome of a store_token call
StoreTokenRet(proc, raised, result) ==
    [op         |-> "store_token",
     user_id    |-> proc.user_id,
     token_data |-> proc.token_data,
     email      |-> proc.email,
     raised     |-> raised,
     result     |-> result]

\* the outcome of a LinkedInService.handle_request call; `caught` is the
\* exception that reached the except clause of handle_request, if any
ServiceRet(request, result) ==
    [op          |-> "handle_request",
     method      |-> request.method,
     params      |-> request.parameters,
     caught      |-> result.caught,
     raised      |-> result.raised,
     msg         |-> result.msg,
     response    |-> result.response,
     calls       |-> result.calls,
     store_reads |-> result.store_reads]

\* the outcome of a ServiceRegistry.handle_request call; `invoked` lists the
\* services whose handle_request was called, `inner` is what that call did
RegistryRet(request, invoked, inner, result) ==
    [op           |-> "registry.handle_request",
     service_name |-> request.service_name,
     method       |-> request.method,
     params       |-> request.parameters,
     invoked      |-> invoked,
     inner        |-> [raised |-> inner.raised, msg |-> inner.msg, response |-> inner.response],
     raised       |-> result.raised,
     msg          |-> result.msg,
     response     |-> result.response,
     calls        |-> result.calls,
     store_reads  |-> result.store_reads]

\* the outcome of a call of a method of LinkedInAPI
ApiRet(request, result) ==
    [op          |-> "LinkedInAPI",
     method      |-> request.method,
     args        |-> request.args,
     raised      |-> result.raised,
     msg         |-> result.msg,
     response    |-> result.response,
     calls       |-> result.calls,
     store_reads |-> result.store_reads]

\* what the caller of store_token makes of its outcome: store_token's own
\* caller gets it as it is; _exchange_code_for_token returns the summary, and
\* an exception of store_token reaches handle_request's except clause (and
\* from there the registry); LinkedInAPI.exchange_code_for_token returns the
\* provider's token_info, and an exception of store_token propagates
Completed(proc, raised, result) ==
    LET caller == proc.caller
        body   == IF raised # None
                  THEN Raised(raised, caller.calls, 0)
                  ELSE Returned(ExchangeSummary(result), caller.calls, 0)
        handled == CatchAll(body)
    IN  IF caller.kind = "store_token" THEN StoreTokenRet(proc, raised, result)
        ELSE IF caller.kind = "api"
        THEN ApiRet(caller.request,
                    IF raised # None
                    THEN Raised(raised, caller.calls, 0)
                    ELSE Returned(ApiSuccess(proc.token_data), caller.calls, 0))
        ELSE IF caller.kind = "service" THEN ServiceRet(caller.request, handled)
        ELSE RegistryRet(caller.request, <<caller.service>>, handled,
                         Route(caller.request.service_name, handled))

(* ----------------------- in-flight store_token ------------------------- *)

Idle == [pc |-> "idle"]

DirectCaller == [kind |-> "store_token"]

\* store_token up to its first SELECT: expires_at is computed, then the
\* existing row is looked up
Begin(p, user_id, token_data, email, caller) ==
    /\ ret = NoRet
    /\ procs[p].pc = "idle"
    /\ \A q \in Procs : q < p => procs[q].pc # "idle"
    /\ procs' = [procs EXCEPT ![p] =
                    [pc         |-> "selected",
                     user_id    |-> user_id,
                     token_data |-> token_data,
                     email      |-> email,
                     expires_at |-> ComputeExpiresAt(token_data, now),
                     existing   |-> GetToken(rows, user_id) # NoToken,
                     caller     |-> caller]]
    /\ ret' = NoRet
    /\ UNCHANGED <<rows, now, services, database_initialized>>

\* a direct call of store_token
StoreToken(p, user_id, token_data, email) ==
    Begin(p, user_id, token_data, email, DirectCaller)

\* the branch `if existing_token`: UPDATE and commit
StoreUpdate(p) ==
    /\ ret = NoRet
    /\ procs[p].pc = "selected"
    /\ procs[p].existing
    /\ rows' = UpdateRows(rows, procs[p].user_id, procs[p].token_data,
                          procs[p].email, procs[p].expires_at, now)
    /\ procs' = [procs EXCEPT ![p].pc = "updated", ![p].expires_at = NULL]
    /\ ret' = NoRet
    /\ UNCHANGED <<now, services, database_initialized>>

\* after the UPDATE: the row is fetched again with scalar_one(), which
\* raises NoResultFound when the row is gone
StoreFetchUpdated(p) ==
    /\ ret = NoRet
    /\ procs[p].pc = "updated"
    /\ LET result == SelectByUser(rows, procs[p].user_id) IN
       ret' = Completed(procs[p],
                        IF result = {} THEN "NoResultFound" ELSE None,
                        ScalarOneOrNone(result))
    /\ procs' = [procs EXCEPT ![p] = Idle]
    /\ UNCHANGED <<rows, now, services, database_initialized>>

\* the else branch: INSERT and commit; when the user_id has been inserted in
\* the meantime the statement fails with IntegrityError
StoreInsert(p) ==
    /\ ret = NoRet
    /\ procs[p].pc = "selected"
    /\ ~procs[p].existing
    /\ IF PrimaryKeyViolated(rows, procs[p].user_id)
       THEN /\ ret' = Completed(procs[p], "IntegrityError", NoToken)
            /\ procs' = [procs EXCEPT ![p] = Idle]
            /\ UNCHANGED rows
       ELSE /\ rows' = rows \cup {NewToken(procs[p].user_id, procs[p].token_data,
                                           procs[p].email, procs[p].expires_at, now)}
            /\ procs' = [procs EXCEPT ![p].pc = "inserted", ![p].expires_at = NULL]
            /\ ret' = NoRet
    /\ UNCHANGED <<now, services, database_initialized>>

\* after the INSERT: session.refresh(new_token) reloads the row, and raises
\* InvalidRequestError when the row is gone
StoreRefresh(p) ==
    /\ ret = NoRet
    /\ procs[p].pc = "inserted"
    /\ LET result == SelectByUser(rows, procs[p].user_id) IN
       ret' = Completed(procs[p],
                        IF result = {} THEN "InvalidRequestError" ELSE None,
                        ScalarOneOrNone(result))
    /\ procs' = [procs EXCEPT ![p] = Idle]
    /\ UNCHANGED <<rows, now, services, database_initialized>>

\* the database fails under a store_token call that was started by the
\* service (OperationalError); nothing more is written
StoreFault(p) ==
    /\ ret = NoRet
    /\ procs[p].pc \in {"selected", "updated", "inserted"}
    /\ procs[p].caller.kind # "store_token"
    /\ ret' = Completed(procs[p], StoreFaultMsg, NoToken)
    /\ procs' = [procs EXCEPT ![p] = Idle]
    /\ UNCHANGED <<rows, now, services, database_initialized>>

(* ------------------- single-statement store operations ----------------- *)

GetTokenCall(user_id) ==
    /\ ret = NoRet
    /\ ret' = [op |-> "get_token", user_id |-> user_id,
               result |-> GetToken(rows, user_id)]
    /\ UNCHANGED <<rows, now, procs, services, database_initialized>>

GetValidTokenCall(user_id) ==
    /\ ret = NoRet
    /\ ret' = [op |-> "get_valid_token", user_id |-> user_id,
               result |-> GetValidToken(rows, user_id, now)]
    /\ UNCHANGED <<rows, now, procs, services, database_initialized>>

\* delete_token: result.rowcount > 0
DeleteToken(user_id) ==
    /\ ret = NoRet
    /\ rows' = DeleteRows(rows, user_id)
    /\ ret' = [op |-> "delete_token", user_id |-> user_id,
               raised |-> None,
               result |-> Cardinality(rows \ DeleteRows(rows, user_id)) > 0]
    /\ UNCHANGED <<now, procs, services, database_initialized>>

\* cleanup_expired_tokens: result.rowcount
CleanupExpiredTokens ==
    /\ ret = NoRet
    /\ rows' = rows \ ExpiredRows(rows, now)
    /\ ret' = [op |-> "cleanup_expired_tokens",
               result |-> Cardinality(ExpiredRows(rows, now))]
    /\ UNCHANGED <<now, procs, services, database_initialized>>

\* the clock advances
Tick ==
    /\ ret = NoRet
    /\ now < MaxTime
    /\ now' = now + 1
    /\ ret' = NoRet
    /\ UNCHANGED <<rows, procs, services, database_initialized>>

(* ------------------------------ requests ------------------------------- *)

\* the access_token and user_id parameters of a request; a key may be missing
AuthParams ==
    {<<>>,
     [access_token |-> ""],
     [access_token |-> "tokX"],
     [user_id |-> "alice"],
     [access_token |-> "", user_id |-> "alice"],
     [access_token |-> "tokX", user_id |-> "alice"]}

PostParams ==
    AuthParams \cup {[content |-> ""], [access_token |-> "tokX", content |-> ""]}
        \cup {[content |-> "hello"], [access_token |-> "tokX", content |-> "hello"],
              [user_id |-> "alice", content |-> "hello"],
              [access_token |-> "tokX", user_id |-> "alice", content |-> "hello"]}

ExchangeParams ==
    {<<>>, [code |-> ""], [user_id |-> "alice"],
     [code |-> "abc123"], [code |-> "abc123", user_id |-> "alice"]}

UrlParams == {<<>>, [state |-> "s1"]}

AuthMethods ==
    {"get_profile", "get_user_info", "get_connections", "get_posts", "create_post",
     "get_certifications", "get_courses", "get_experience", "search_jobs"}

\* the method names requests are made with: the implemented ones and two
\* that are not
Methods == {AvailableMethods[i] : i \in DOMAIN AvailableMethods} \cup {"bogus", ""}

ParamsFor(method) ==
    IF method = "create_post" THEN PostParams
    ELSE IF method \in AuthMethods THEN AuthParams
    ELSE IF method = "exchange_code_for_token" THEN ExchangeParams
    ELSE UrlParams

\* what the environment does during a request: whether the token store
\* fails, the outcomes of the SDK call and of the first and second HTTP
\* call, whether authlib fails, whether the client credentials are
\* configured, and the provider's answer to the token exchange
EnvOf(store_faults, sdks, r1s, r2s, libs, configureds, fetches, tokens, emails) ==
    [store_fault : store_faults, sdk : sdks, r1 : r1s, r2 : r2s, lib : libs,
     configured : configureds, fetch : fetches, token : tokens, email : emails]

EnvFor(method) ==
    IF method \in {"get_profile", "get_user_info", "get_certifications", "get_courses",
                   "get_experience"}
    THEN EnvOf(BOOLEAN, {"ok"}, HttpOutcomes, {"ok"}, {"ok"}, {TRUE}, {"ok"}, {PayloadB}, {None})
    ELSE IF method = "get_connections"
    THEN EnvOf(BOOLEAN, SdkOutcomes, {"ok", "403"}, {"ok"}, {"ok"}, {TRUE}, {"ok"}, {PayloadB}, {None})
    ELSE IF method = "get_posts"
    THEN EnvOf(BOOLEAN, SdkOutcomes, {"ok", "403"}, {"ok", "500"}, {"ok"}, {TRUE}, {"ok"}, {PayloadB}, {None})
    ELSE IF method = "create_post"
    THEN EnvOf(BOOLEAN, {"ok"}, {"ok", "403"}, {"ok", "500"}, {"ok"}, {TRUE}, {"ok"}, {PayloadB}, {None})
    ELSE IF method = "search_jobs"
    THEN EnvOf(BOOLEAN, SdkOutcomes, {"ok"}, {"ok"}, {"ok"}, {TRUE}, {"ok"}, {PayloadB}, {None})
    ELSE IF method = "exchange_code_for_token"
    THEN EnvOf({FALSE}, {"ok"}, {"ok"}, {"ok"}, {"ok"}, {TRUE}, {"ok", "error"},
               {PayloadB}, {"a@example.com"})
         \cup EnvOf({FALSE}, {"ok"}, {"403"}, {"ok"}, {"ok"}, {TRUE}, {"ok"},
                    {PayloadC}, {"a@example.com"})
    ELSE EnvOf({FALSE}, {"ok"}, {"ok"}, {"ok"}, {"ok", "error"}, BOOLEAN, {"ok"}, {PayloadB}, {None})

\* the provider's answers to an exchange in full: the token exchange fails
\* or gives one of the three payloads, and the email lookup succeeds or
\* fails in one of the ways a remote call fails
ExchangeEnvs ==
    EnvOf({FALSE}, {"ok"}, {"ok", "403"}, {"ok"}, {"ok"}, {TRUE}, {"ok"},
          {PayloadA, PayloadB}, {"a@example.com"})
      \cup EnvOf({FALSE}, {"ok"}, HttpOutcomes, {"ok"}, {"ok"}, {TRUE}, {"ok"},
                 {PayloadC}, {"a@example.com"})
      \cup EnvOf({FALSE}, {"ok"}, {"ok"}, {"ok"}, {"ok"}, {TRUE}, {"error"},
                 {PayloadB}, {"a@example.com"})

\* the requests that use the stored token in the lifecycle specification: a
\* read and a post whose remote calls succeed
LifecycleRequests ==
    {<<"get_profile", <<>>>>,
     <<"get_profile", [user_id |-> "alice"]>>,
     <<"create_post", [user_id |-> "alice", content |-> "hello"]>>}

LifecycleEnvs(method) ==
    {env \in EnvFor(method) : ~env.store_fault /\ env.r1 = "ok" /\ env.r2 = "ok"}

\* a call of LinkedInService.handle_request; an exchange that got its token
\* goes on as a store_token call
ServiceHandleRequest(p, method, params, env) ==
    LET request == [service_name |-> "linkedin", method |-> method, parameters |-> params]
        result  == HandleRequest(method, params, rows, now, env)
    IN  /\ ret = NoRet
        /\ IF IsPending(result)
           THEN Begin(p, result.pending.user_id, result.pending.token_data,
                      result.pending.email,
                      [kind |-> "service", request |-> request, calls |-> result.calls])
           ELSE /\ ret' = ServiceRet(request, result)
                /\ UNCHANGED <<rows, now, procs, services, database_initialized>>

(* ----------------------------- LinkedInAPI ----------------------------- *)

\* the arguments the MCP tools of main.py call LinkedInAPI with
ApiArgsFor(method) ==
    IF method = "exchange_code_for_token"
    THEN [code : {"abc123"}, user_id : Users]
    ELSE [user_id : Users]

\* what the environment does during a call: whether the token store fails,
\* the outcome of the GET, the outcome of the token POST and its token_info
ApiEnvFor(method) ==
    IF method = "exchange_code_for_token"
    THEN [store_fault : {FALSE}, r1 : {"ok"}, fetch : {"ok", "500", "conn"},
          token : {PayloadA, PayloadC}]
    ELSE [store_fault : BOOLEAN, r1 : HttpOutcomes, fetch : {"ok"}, token : {PayloadC}]

\* a call of a method of LinkedInAPI; an exchange that got its token goes on
\* as a store_token call
LinkedInApiCall(p, method, args, env) ==
    LET request == [method |-> method, args |-> args]
        result  == ApiDispatch(method, args, rows, now, env)
    IN  /\ ret = NoRet
        /\ IF IsPending(result)
           THEN Begin(p, result.pending.user_id, result.pending.token_data,
                      result.pending.email,
                      [kind |-> "api", request |-> request, calls |-> result.calls])
           ELSE /\ ret' = ApiRet(request, result)
                /\ UNCHANGED <<rows, now, procs, services, database_initialized>>

(* ----------------------- ensure_database_initialized ------------------- *)

\* a call finds the flag set and returns at once
EnsureSkip ==
    /\ ret = NoRet
    /\ database_initialized
    /\ ret' = EnsureRet(FALSE, FALSE)
    /\ UNCHANGED <<rows, now, procs, services, database_initialized>>

\* a call finds the flag not set and awaits init_database
EnsureBegin(p) ==
    /\ ret = NoRet
    /\ ~database_initialized
    /\ procs[p].pc = "idle"
    /\ procs' = [procs EXCEPT ![p] = [pc |-> "initializing"]]
    /\ ret' = NoRet
    /\ UNCHANGED <<rows, now, services, database_initialized>>

\* init_database returns (ok) or raises; the call sets the flag or prints
\* the failure, and returns
EnsureEnd(p, ok) ==
    /\ ret = NoRet
    /\ procs[p].pc = "initializing"
    /\ database_initialized' = FlagAfterInit(database_initialized, ok)
    /\ procs' = [procs EXCEPT ![p] = Idle]
    /\ ret' = EnsureRet(TRUE, ~ok)
    /\ UNCHANGED <<rows, now, services>>

(* ------------------------------ registry ------------------------------- *)

\* the services that get registered: the LinkedIn service and two stand-ins
\* for other implementations of BaseService, one of them under the same name
ServiceObjects ==
    {[name |-> "linkedin", impl |-> "LinkedInService"],
     [name |-> "linkedin", impl |-> "Stub"],
     [name |-> "other",    impl |-> "Stub"]}

ServiceNames == {"linkedin", "other", "nonexistent"}

\* what the handle_request of an implementation of BaseService other than
\* LinkedInService can do: return any response or raise any exception
StubResults ==
    {Returned(ServiceResponse(TRUE, Json("stub data"), None), <<>>, 0),
     Returned(ServiceResponse(FALSE, NoData, "stub failure"), <<>>, 0),
     Raised("boom", <<>>, 0),
     Raised("", <<>>, 0)}

RegisterService(service) ==
    /\ ret = NoRet
    /\ services' = Register(services, service)
    /\ ret' = [op |-> "register_service", service |-> service]
    /\ UNCHANGED <<rows, now, procs, database_initialized>>

UnregisterService(service_name) ==
    /\ ret = NoRet
    /\ services' = Unregister(services, service_name)
    /\ ret' = [op |-> "unregister_service", service_name |-> service_name]
    /\ UNCHANGED <<rows, now, procs, database_initialized>>

GetServiceCall(service_name) ==
    /\ ret = NoRet
    /\ ret' = [op |-> "get_service", service_name |-> service_name,
               result |-> GetService(services, service_name)]
    /\ UNCHANGED <<rows, now, procs, services, database_initialized>>

ListServicesCall ==
    /\ ret = NoRet
    /\ ret' = [op |-> "list_services", result |-> ListServices(services)]
    /\ UNCHANGED <<rows, now, procs, services, database_initialized>>

GetAllMethodsCall ==
    /\ ret = NoRet
    /\ ret' = [op |-> "get_all_methods", result |-> GetAllMethods(services)]
    /\ UNCHANGED <<rows, now, procs, services, database_initialized>>

\* ServiceRegistry.handle_request
RegistryHandleRequest(p, service_name, method, params, env, stub) ==
    LET request == [service_name |-> service_name, method |-> method, parameters |-> params]
        service == GetService(services, service_name)
        result  == IF service.impl = "LinkedInService"
                   THEN HandleRequest(method, params, rows, now, env)
                   ELSE stub
    IN  /\ ret = NoRet
        /\ IF service = NoService
           THEN /\ ret' = RegistryRet(request, <<>>, Returned(NoResponse, <<>>, 0),
                                      Returned(NotFound(service_name), <<>>, 0))
                /\ UNCHANGED <<rows, now, procs, services, database_initialized>>
           ELSE IF IsPending(result)
           THEN Begin(p, result.pending.user_id, result.pending.token_data,
                      result.pending.email,
                      [kind |-> "registry", request |-> request, calls |-> result.calls,
                       service |-> service])
           ELSE /\ ret' = RegistryRet(request, <<service>>, result, Route(service_name, result))
                /\ UNCHANGED <<rows, now, procs, services, database_initialized>>

\* the caller takes the response (the route handlers read response.success
\* and response.data or response.error)
Deliver ==
    /\ ret # NoRet
    /\ ret' = NoRet
    /\ UNCHANGED <<rows, now, procs, services, database_initialized>>

\* the requests the transports send through the registry
RegistryRequests ==
    {<<"bogus", <<>>>>,
     <<"get_auth_url", <<>>>>,
     <<"get_profile", <<>>>>,
     <<"get_profile", [access_token |-> "tokX"]>>,
     <<"get_courses", [access_token |-> "tokX", user_id |-> "alice"]>>,
     <<"exchange_code_for_token", <<>>>>,
     <<"exchange_code_for_token", [code |-> "abc123"]>>}

(* --------------------------- specification ----------------------------- *)

Init ==
    /\ rows = {}
    /\ now = 0
    /\ procs = [p \in Procs |-> Idle]
    /\ services = <<>>
    /\ ret = NoRet
    /\ database_initialized = FALSE

\* the token store under concurrent callers
Next ==
    \/ \E p \in Procs, a \in StoreArgs : StoreToken(p, a[1], a[2], a[3])
    \/ \E p \in Procs : StoreUpdate(p)
    \/ \E p \in Procs : StoreFetchUpdated(p)
    \/ \E p \in Procs : StoreInsert(p)
    \/ \E p \in Procs : StoreRefresh(p)
    \/ \E u \in Users : GetTokenCall(u)
    \/ \E u \in Users : GetValidTokenCall(u)
    \/ \E u \in Users : DeleteToken(u)
    \/ CleanupExpiredTokens
    \/ Tick
    \/ Deliver

Spec == Init /\ [][Next]_vars

\* the LinkedIn service over the token store, one exchange at a time
NextService ==
    \/ \E m \in Methods :
          \E params \in ParamsFor(m), env \in EnvFor(m) : ServiceHandleRequest(1, m, params, env)
    \/ \E p \in Procs : StoreUpdate(p)
    \/ \E p \in Procs : StoreFetchUpdated(p)
    \/ \E p \in Procs : StoreInsert(p)
    \/ \E p \in Procs : StoreRefresh(p)
    \/ \E p \in Procs : StoreFault(p)
    \/ Tick
    \/ Deliver

SpecService == Init /\ [][NextService]_vars

\* the registry in front of the services, one exchange at a time
NextRegistry ==
    \/ \E s \in ServiceObjects : RegisterService(s)
    \/ \E n \in ServiceNames : UnregisterService(n)
    \/ \E n \in ServiceNames : GetServiceCall(n)
    \/ ListServicesCall
    \/ GetAllMethodsCall
    \/ \E n \in ServiceNames, r \in RegistryRequests :
          \E env \in EnvFor(r[1]), stub \in StubResults :
             RegistryHandleRequest(1, n, r[1], r[2], env, stub)
    \/ \E p \in Procs : StoreUpdate(p)
    \/ \E p \in Procs : StoreFetchUpdated(p)
    \/ \E p \in Procs : StoreInsert(p)
    \/ \E p \in Procs : StoreRefresh(p)
    \/ \E p \in Procs : StoreFault(p)
    \/ Deliver

SpecRegistry == Init /\ [][NextRegistry]_vars

\* every request to the LinkedIn service sent through the registry, with a
\* second service beside it that returns or raises anything
NextDispatch ==
    \/ \E s \in {[name |-> "linkedin", impl |-> "LinkedInService"],
                  [name |-> "other", impl |-> "Stub"]} : RegisterService(s)
    \/ \E m \in Methods :
          \E params \in ParamsFor(m), env \in EnvFor(m) :
             RegistryHandleRequest(1, "linkedin", m, params, env,
                                   CHOOSE stub \in StubResults : TRUE)
    \/ \E stub \in StubResults :
          RegistryHandleRequest(1, "other", "bogus", <<>>,
                                CHOOSE env \in EnvFor("bogus") : TRUE, stub)
    \/ \E p \in Procs : StoreUpdate(p)
    \/ \E p \in Procs : StoreFetchUpdated(p)
    \/ \E p \in Procs : StoreInsert(p)
    \/ \E p \in Procs : StoreRefresh(p)
    \/ \E p \in Procs : StoreFault(p)
    \/ Deliver

SpecDispatch == Init /\ [][NextDispatch]_vars

\* the life of a stored token: exchanges with every answer of the provider,
\* operations that use the stored token, reads, deletions, sweeps and the
\* passing of time
NextLifecycle ==
    \/ \E params \in ExchangeParams, env \in ExchangeEnvs :
          ServiceHandleRequest(1, "exchange_code_for_token", params, env)
    \/ \E r \in LifecycleRequests :
          \E env \in LifecycleEnvs(r[1]) : ServiceHandleRequest(1, r[1], r[2], env)
    \/ \E p \in Procs : StoreUpdate(p)
    \/ \E p \in Procs : StoreFetchUpdated(p)
    \/ \E p \in Procs : StoreInsert(p)
    \/ \E p \in Procs : StoreRefresh(p)
    \/ \E p \in Procs : StoreFault(p)
    \/ \E u \in Users : GetValidTokenCall(u)
    \/ \E u \in Users : DeleteToken(u)
    \/ CleanupExpiredTokens
    \/ Tick
    \/ Deliver

SpecLifecycle == Init /\ [][NextLifecycle]_vars

\* LinkedInAPI over the token store, one exchange at a time
NextApi ==
    \/ \E m \in ApiMethods :
          \E args \in ApiArgsFor(m), env \in ApiEnvFor(m) : LinkedInApiCall(1, m, args, env)
    \/ \E p \in Procs : StoreUpdate(p)
    \/ \E p \in Procs : StoreFetchUpdated(p)
    \/ \E p \in Procs : StoreInsert(p)
    \/ \E p \in Procs : StoreRefresh(p)
    \/ \E p \in Procs : StoreFault(p)
    \/ Tick
    \/ Deliver

SpecApi == Init /\ [][NextApi]_vars

\* the codes an exchange is asked for: LinkedInAPI posts the code as it is,
\* and the provider refuses an empty one
ExchangeApiArgs == [code : {"abc123", ""}, user_id : Users]

\* the exchanges of LinkedInService and of LinkedInAPI over one token store,
\* with every answer of the provider
NextExchange ==
    \/ \E params \in ExchangeParams, env \in ExchangeEnvs :
          ServiceHandleRequest(1, "exchange_code_for_token", params, env)
    \/ \E args \in ExchangeApiArgs, env \in ApiEnvFor("exchange_code_for_token") :
          /\ args.code = "" => env.fetch # "ok"
          /\ LinkedInApiCall(1, "exchange_code_for_token", args, env)
    \/ \E p \in Procs : StoreUpdate(p)
    \/ \E p \in Procs : StoreFetchUpdated(p)
    \/ \E p \in Procs : StoreInsert(p)
    \/ \E p \in Procs : StoreRefresh(p)
    \/ \E p \in Procs : StoreFault(p)
    \/ Deliver

SpecExchange == Init /\ [][NextExchange]_vars

\* the MCP tools and the OAuth callback of main.py: each awaits
\* ensure_database_initialized and then calls LinkedInAPI
NextMain ==
    \/ EnsureSkip
    \/ \E p \in Procs : EnsureBegin(p)
    \/ \E p \in Procs, ok \in BOOLEAN : EnsureEnd(p, ok)
    \/ \E m \in ApiMethods :
          \E args \in ApiArgsFor(m), env \in ApiEnvFor(m) : LinkedInApiCall(1, m, args, env)
    \/ \E p \in Procs : StoreUpdate(p)
    \/ \E p \in Procs : StoreFetchUpdated(p)
    \/ \E p \in Procs : StoreInsert(p)
    \/ \E p \in Procs : StoreRefresh(p)
    \/ \E p \in Procs : StoreFault(p)
    \/ Deliver

SpecMain == Init /\ [][NextMain]_vars

(* ------------------------------ properties ----------------------------- *)

\* the records of the table that are valid at time t: expires_at absent or
\* strictly in the future
ValidAt(r, t) == r.expires_at = NULL \/ r.expires_at > t

\* the last outbound call of a request failed
LastCallFailed(calls) == calls # <<>> /\ calls[Len(calls)].outcome # "ok"

\* C1: LinkedInService.handle_request never raises: whatever fault occurs in
\* the token store, the token exchange, the SDK or a remote call, it returns
\* a ServiceResponse; when an exception reached its except clause, or the
\* last remote call of an operation failed (the best-effort email lookup of
\* the exchange apart), the response has success = false; and every response
\* with success = false carries a non-empty error message.
C1_NeverRaises ==
    ret.op = "handle_request" =>
        /\ ~ret.raised
        /\ ret.response # NoResponse
        /\ ret.response.success \in BOOLEAN
        /\ ret.caught # None => ~ret.response.success
        /\ (ret.method # "exchange_code_for_token" /\ LastCallFailed(ret.calls))
              => ~ret.response.success
        /\ (ret.method = "exchange_code_for_token" /\ ret.calls # <<>>
               /\ ret.calls[1].outcome # "ok") => ~ret.response.success
        /\ ~ret.response.success =>
              /\ ret.response.error # None
              /\ Len(ret.response.error) > 0

\* a store fault during an operation came back as a failure response
C1_Witness ==
    /\ ret.op = "handle_request"
    /\ ret.caught = StoreFaultMsg
    /\ ret.response = ServiceResponse(FALSE, NoData, "LinkedIn API error: database is locked")

\* C2: when the handle_request of a registered service raises an exception
\* with message m, ServiceRegistry.handle_request does not raise and returns
\* success = false with the error "Error in service '<name>': m"; no call of
\* the registry raises.
C2_DoubleContainment ==
    ret.op = "registry.handle_request" =>
        /\ ~ret.raised
        /\ ret.inner.raised =>
              ret.response = ServiceResponse(FALSE, NoData,
                                "Error in service '" \o ret.service_name \o "': " \o ret.inner.msg)

\* the service registered as "other" raised "boom"
C2_Witness ==
    /\ ret.op = "registry.handle_request"
    /\ ret.inner.raised
    /\ ret.inner.msg = "boom"
    /\ ret.response.error = "Error in service 'other': boom"

\* C3: a request whose service_name is not a key of the registry at the time
\* of the call gets success = false with the error "Service '<name>' not
\* found"; the call does not raise, invokes no service, and changes nothing.
\* A name that was unregistered is not a key any more.
C3_NotFound ==
    [][/\ (ret'.op = "registry.handle_request" /\ ret'.service_name \notin DOMAIN services
            /\ procs' = procs)
          => /\ ~ret'.raised
             /\ ret'.response = ServiceResponse(FALSE, NoData,
                                   "Service '" \o ret'.service_name \o "' not found")
             /\ ret'.invoked = <<>>
             /\ ret'.calls = <<>>
             /\ UNCHANGED <<rows, services>>
       /\ ret'.op = "unregister_service" => ret'.service_name \notin DOMAIN services']_vars

\* "linkedin" is not found while another service is registered
C3_Witness ==
    /\ ret.op = "registry.handle_request"
    /\ ret.service_name = "linkedin"
    /\ "linkedin" \notin DOMAIN services
    /\ "other" \in DOMAIN services
    /\ ret.response.error = "Service 'linkedin' not found"

\* the operations handle_request implements
ImplementedMethods ==
    {"get_auth_url", "exchange_code_for_token", "get_profile", "get_user_info",
     "get_connections", "get_posts", "create_post", "start_auth_flow",
     "get_certifications", "get_courses", "get_experience", "search_jobs"}

\* C4: for a method that is not one of the implemented operations,
\* handle_request returns success = false with the error "Unknown method:
\* <method>", without reading or writing the token store and without any
\* remote call.
C4_UnknownMethod ==
    [][(ret'.op = "handle_request" /\ ret'.method \notin ImplementedMethods)
        => /\ ~ret'.raised
           /\ ret'.response = ServiceResponse(FALSE, NoData, "Unknown method: " \o ret'.method)
           /\ ret'.store_reads = 0
           /\ ret'.calls = <<>>
           /\ UNCHANGED <<rows, procs>>]_vars

\* the method "bogus" was refused while the store holds a record
C4_Witness ==
    /\ ret.op = "handle_request"
    /\ ret.method = "bogus"
    /\ ret.response.error = "Unknown method: bogus"
    /\ rows # {}

\* C5: get_valid_token(u) returns the record iff get_token(u) returns a
\* record and its expires_at is absent or strictly greater than the current
\* time; a token stored with expires_in = 0 (PayloadA) is returned by
\* get_token and never by get_valid_token; a record without expires_at is
\* always valid.
C5_ValidityLaw ==
    /\ ret.op = "get_valid_token" =>
          LET valid == {r \in rows : r.user_id = ret.user_id /\ ValidAt(r, now)} IN
          /\ valid = {} => ret.result = NoToken
          /\ valid # {} => ret.result \in valid
    /\ \A r \in rows :
          /\ r.access_token = PayloadA["access_token"] =>
                /\ GetToken(rows, r.user_id) = r
                /\ GetValidToken(rows, r.user_id, now) = NoToken
          /\ r.expires_at = NULL => GetValidToken(rows, r.user_id, now) = r

\* get_valid_token found nothing for a user whose record expires at this
\* very instant
C5_Witness ==
    /\ ret.op = "get_valid_token"
    /\ ret.result = NoToken
    /\ \E r \in rows : r.user_id = ret.user_id /\ r.expires_at = now

\* C6: the table holds at most one record per user_id in every state, under
\* every interleaving of store_token, delete_token and cleanup_expired_tokens;
\* a store_token that returns leaves exactly one record for its user_id.
C6_OneRecordPerUser ==
    /\ \A u \in Users : Cardinality({r \in rows : r.user_id = u}) <= 1
    /\ (ret.op = "store_token" /\ ret.raised = None) =>
          Cardinality({r \in rows : r.user_id = ret.user_id}) = 1

\* a user was stored a second time, with another payload, at a later time
C6_Witness ==
    /\ ret.op = "store_token"
    /\ ret.raised = None
    /\ ret.result.created_at < ret.result.updated_at
    /\ ret.result.access_token = "tokB"
    /\ Cardinality({r \in rows : r.user_id = ret.user_id}) = 1

\* C7: as long as the record of a user_id is not removed its created_at does
\* not change and its updated_at does not decrease; the UPDATE of store_token
\* sets updated_at to the current time; created_at <= updated_at holds for
\* every record.
C7_CreatedAtPreserved ==
    [][/\ \A r \in rows, r2 \in rows' :
             r.user_id = r2.user_id =>
                /\ r2.created_at = r.created_at
                /\ r2.updated_at >= r.updated_at
       /\ \A p \in Procs :
             (procs[p].pc = "selected" /\ procs'[p].pc = "updated") =>
                \A r2 \in rows' : r2.user_id = procs[p].user_id => r2.updated_at = now
       /\ \A r2 \in rows' : r2.created_at <= r2.updated_at]_vars

\* a record was updated after the instant it was created at
C7_Witness ==
    /\ ret.op = "store_token"
    /\ ret.raised = None
    /\ ret.result.created_at = 0
    /\ ret.result.updated_at = 1

\* C8: delete_token(u) returns true iff a record of u existed right before
\* the call; it does not raise; afterwards u has no record, so that another
\* delete returns false; the records of the other users are unchanged.
C8_Delete ==
    [][ret'.op = "delete_token" =>
          LET u == ret'.user_id IN
          /\ ret'.raised = None
          /\ ret'.result = (\E r \in rows : r.user_id = u)
          /\ ~\E r \in rows' : r.user_id = u
          /\ {r \in rows' : r.user_id # u} = {r \in rows : r.user_id # u}]_vars

\* a record was deleted while another user's record stays
C8_Witness ==
    /\ ret.op = "delete_token"
    /\ ret.result = TRUE
    /\ rows # {}

\* C9: cleanup_expired_tokens removes exactly the records whose expires_at is
\* set and not later than the time of the sweep, keeps the records whose
\* expires_at is absent or in the future, and returns the number removed.
C9_Sweep ==
    [][ret'.op = "cleanup_expired_tokens" =>
          /\ rows' = {r \in rows : r.expires_at = NULL \/ r.expires_at > now}
          /\ ret'.result = Cardinality(rows) - Cardinality(rows')]_vars

\* a sweep removed one record and kept one that never expires
C9_Witness ==
    /\ ret.op = "cleanup_expired_tokens"
    /\ ret.result = 1
    /\ \E r \in rows : r.expires_at = NULL

\* C10: in every authenticated operation a present, non-empty
\* parameters.access_token is the token of every outbound call and the token
\* store is not read; otherwise the store is read once and every outbound
\* call carries the access_token of the valid record of the user_id
\* (default_user when the parameter is missing).
C10_CredentialPrecedence ==
    (ret.op = "handle_request" /\ ret.method \in AuthMethods) =>
        LET inline == DictGet(ret.params, "access_token", None)
            user   == DictGet(ret.params, "user_id", "default_user")
        IN  IF inline # None /\ inline # ""
            THEN /\ \A i \in DOMAIN ret.calls : ret.calls[i].token = inline
                 /\ ret.store_reads = 0
            ELSE /\ ret.store_reads = 1
                 /\ ret.calls # <<>> =>
                       \E r \in rows :
                          /\ r.user_id = user
                          /\ ValidAt(r, now)
                          /\ \A i \in DOMAIN ret.calls : ret.calls[i].token = r.access_token

\* an operation was given the inline token tokX for a user who has a valid
\* stored token, and called out with tokX
C10_Witness ==
    /\ ret.op = "handle_request"
    /\ ret.method \in AuthMethods
    /\ DictGet(ret.params, "access_token", None) = "tokX"
    /\ \E r \in rows : /\ r.user_id = DictGet(ret.params, "user_id", "default_user")
                       /\ ValidAt(r, now)
                       /\ r.access_token # "tokX"
    /\ ret.calls # <<>>
    /\ ret.calls[1].token = "tokX"
\* C11: in every authenticated operation, when no inline access_token is
\* supplied and get_valid_token finds no valid record of the user_id
\* (default_user when the parameter is missing), the response is exactly
\* success = false with the error "No valid stored token found. Please
\* authenticate first." and no remote call is issued.  The authenticated
\* operations are those of LinkedInService and those of LinkedInAPI.
C11_Unauthenticated ==
    /\ (/\ ret.op = "handle_request"
        /\ ret.method \in AuthMethods
        /\ ret.caught = None
        /\ ~Truthy(DictGet(ret.params, "access_token", None))
        /\ GetValidToken(rows, DictGet(ret.params, "user_id", "default_user"), now) = NoToken)
          => /\ ret.response = ServiceResponse(FALSE, NoData, NoTokenError)
             /\ ret.calls = <<>>
    /\ (/\ ret.op = "LinkedInAPI"
        /\ ret.method \in ApiAuthMethods
        /\ ~ret.raised
        /\ GetValidToken(rows, ret.args.user_id, now) = NoToken)
          => /\ ret.response = [success |-> FALSE, error |-> NoTokenError]
             /\ ret.calls = <<>>

\* the step in which an exchange that found no record of its user_id and
\* inserted one returns success
FreshExchangeReturns ==
    /\ procs[1].pc = "inserted"
    /\ procs[1].caller.kind = "service"
    /\ ret'.op = "handle_request"
    /\ ret'.method = "exchange_code_for_token"
    /\ ret'.response.success

\* C12 as stated: when an exchange for user_id u that started with no record
\* of u returns success, get_valid_token(u) returns a record whose user_id
\* is u.
C12_FreshExchange ==
    [][FreshExchangeReturns =>
          LET u == DictGet(ret'.params, "user_id", "default_user") IN
          /\ GetValidToken(rows', u, now') # NoToken
          /\ GetValidToken(rows', u, now').user_id = u]_vars

\* C12 amended: when an exchange for user_id u that started with no record
\* of u returns success, get_token(u) returns a record whose user_id is u
\* and whose access_token is the one the provider gave, and get_valid_token(u)
\* returns that record if its expires_at is absent or later than the time of
\* the read, and nothing otherwise (as for a token given with expires_in = 0).
C12_FreshExchangeStored ==
    [][FreshExchangeReturns =>
          LET u     == DictGet(ret'.params, "user_id", "default_user")
              token == GetToken(rows', u)
          IN  /\ token # NoToken
              /\ token.user_id = u
              /\ token.access_token = procs[1].token_data["access_token"]
              /\ ret'.response.data.user_id = u
              /\ (token.expires_at = NULL \/ token.expires_at > now')
                    => GetValidToken(rows', u, now') = token
              /\ (token.expires_at # NULL /\ token.expires_at <= now')
                    => GetValidToken(rows', u, now') = NoToken]_vars

\* the exchange {code: "abc123", user_id: "alice"} has returned success, the
\* record of alice was created just now and get_valid_token returns it
C12_Witness ==
    /\ ret.op = "handle_request"
    /\ ret.method = "exchange_code_for_token"
    /\ ret.params = [code |-> "abc123", user_id |-> "alice"]
    /\ ret.response.success
    /\ GetValidToken(rows, "alice", now) # NoToken
    /\ GetValidToken(rows, "alice", now).user_id = "alice"
    /\ GetValidToken(rows, "alice", now).created_at = now
    /\ GetValidToken(rows, "alice", now).updated_at = now

\* data is present and error absent when success is true; error is present
\* and data absent when success is false
WellFormed(response) ==
    /\ response.success \in BOOLEAN
    /\ response.success => (response.data # NoData /\ response.error = None)
    /\ ~response.success => (response.data = NoData /\ response.error # None)

\* C13: every ServiceResponse returned by ServiceRegistry.handle_request, and
\* every ServiceResponse LinkedInService.handle_request returned to it, has
\* data present iff success is true and error present iff success is false,
\* for every operation and every outcome of the remote calls.
C13_ResponseShape ==
    ret.op = "registry.handle_request" =>
        /\ ~ret.raised
        /\ WellFormed(ret.response)
        /\ (ret.invoked # <<>> /\ ret.invoked[1].impl = "LinkedInService") =>
              /\ ~ret.inner.raised
              /\ WellFormed(ret.inner.response)
              /\ ret.response = ret.inner.response

\* get_connections failed in the SDK and in the fallback request, and the
\* registry returned the failure with an error and no data
C13_Witness ==
    /\ ret.op = "registry.handle_request"
    /\ ret.method = "get_connections"
    /\ Len(ret.calls) = 2
    /\ ret.calls[2].outcome = "403"
    /\ ~ret.response.success
    /\ ret.response.data = NoData
    /\ ret.response.error # None

\* the record holds, in every field store_token writes, the values of one
\* single call store_token(user_id, token_data, email)
WrittenBy(r, user_id, token_data, email) ==
    /\ r.user_id = user_id
    /\ r.access_token = token_data["access_token"]
    /\ r.refresh_token = DictGet(token_data, "refresh_token", None)
    /\ r.token_type = DictGet(token_data, "token_type", "Bearer")
    /\ r.scope = DictGet(token_data, "scope", None)
    /\ r.email = email
    /\ IF "expires_in" \in DOMAIN token_data
       THEN /\ r.expires_at # NULL
            /\ r.expires_at - token_data["expires_in"] <= r.updated_at
       ELSE r.expires_at = NULL

\* C14: a get_token or get_valid_token, also one that runs while a
\* store_token for the same user_id is in flight, returns a record of the
\* table as it is committed at that moment, and every such record holds the
\* values of one single store_token call in all the fields store_token
\* writes: never the fields of two calls mixed, never a partly written one.
C14_ReadsSeeWholeRecords ==
    /\ \A r \in rows : \E a \in StoreArgs : WrittenBy(r, a[1], a[2], a[3])
    /\ (ret.op \in {"get_token", "get_valid_token"} /\ ret.result # NoToken) =>
          /\ ret.result \in rows
          /\ ret.result.user_id = ret.user_id
          /\ \E a \in StoreArgs : WrittenBy(ret.result, a[1], a[2], a[3])

\* a read of alice returned the record a store_token still in flight (it has
\* committed its UPDATE and not yet returned) has just written over the
\* record of an earlier call
C14_Witness ==
    /\ ret.op \in {"get_token", "get_valid_token"}
    /\ ret.result # NoToken
    /\ \E p \in Procs :
          /\ procs[p].pc = "updated"
          /\ procs[p].user_id = ret.user_id
          /\ WrittenBy(ret.result, procs[p].user_id, procs[p].token_data, procs[p].email)
          /\ ret.result.created_at < ret.result.updated_at

\* C15: every store_token call, also one that runs concurrently with another
\* store_token for the same user_id, completes without raising; afterwards
\* exactly one record of that user_id exists, and it holds the payload of a
\* store_token call for that user_id.
C15_ConcurrentUpsert ==
    ret.op = "store_token" =>
        /\ ret.raised = None
        /\ Cardinality({r \in rows : r.user_id = ret.user_id}) = 1
        /\ \A r \in rows :
              r.user_id = ret.user_id =>
                 \E a \in StoreArgs : WrittenBy(r, a[1], a[2], a[3])

\* the secret values of the payloads the provider gives
Secrets ==
    {PayloadA["access_token"], PayloadA["refresh_token"], PayloadB["access_token"],
     PayloadC["access_token"]}

\* C16: the success response of every code-for-token exchange, that of
\* LinkedInService as well as that of LinkedInAPI, carries in its data only
\* message, user_id, email, token_type, expires_at and scope: no access_token
\* or refresh_token key, and no secret value under another key.
C16_NoRawToken ==
    (/\ ret.op \in {"handle_request", "LinkedInAPI"}
     /\ ret.method = "exchange_code_for_token"
     /\ ~ret.raised
     /\ ret.response.success)
       => /\ DOMAIN ret.response.data \subseteq
                {"message", "user_id", "email", "token_type", "expires_at", "scope"}
          /\ \A k \in DOMAIN ret.response.data \ {"expires_at", "expires_in"} :
                ret.response.data[k] \notin Secrets

\* the retrieval operations of LinkedInService
RetrievalMethods ==
    {"get_profile", "get_user_info", "get_connections", "get_posts",
     "get_certifications", "get_courses", "get_experience"}

\* C17: when the remote read of a retrieval operation is answered with HTTP
\* 403, the failure response carries a scope_issue marker, and its error
\* differs from the one any other remote error gives.
C17_ScopeIssue ==
    (/\ ret.op = "handle_request"
     /\ ret.method \in RetrievalMethods
     /\ ret.calls # <<>>
     /\ ret.calls[Len(ret.calls)].outcome = "403")
       => /\ ~ret.response.success
          /\ "scope_issue" \in DOMAIN ret.response
          /\ ret.response.error # None

\* the request lacks the input its operation requires: create_post without
\* content, exchange_code_for_token without code (missing or empty)
InvalidInput(method, params) ==
    \/ method = "create_post" /\ ~Truthy(DictGet(params, "content", None))
    \/ method = "exchange_code_for_token" /\ ~Truthy(DictGet(params, "code", None))

\* C18: LinkedInService answers create_post with absent or empty content and
\* exchange_code_for_token with absent or empty code with success = false,
\* without any remote call and without a write to the token store; when a
\* credential is at hand the error names the missing input.
C18_ValidationFirst ==
    [][(ret'.op = "handle_request" /\ InvalidInput(ret'.method, ret'.params))
        => /\ ~ret'.raised
           /\ ~ret'.response.success
           /\ ret'.calls = <<>>
           /\ UNCHANGED <<rows, procs>>
           /\ ret'.method = "exchange_code_for_token"
                 => ret'.response.error = "Authorization code is required"
           /\ (ret'.method = "create_post" /\ ret'.caught = None
                 /\ ret'.response.error # NoTokenError)
                 => ret'.response.error = "Post content is required"]_vars

\* create_post with empty content was refused for a user whose stored token
\* is valid, and an exchange is not what returned
C18_Witness ==
    /\ ret.op = "handle_request"
    /\ ret.method = "create_post"
    /\ ret.params = [content |-> ""]
    /\ GetValidToken(rows, "default_user", now) # NoToken
    /\ ret.response = ServiceResponse(FALSE, NoData, "Post content is required")
    /\ ret.calls = <<>>

\* the step is the committed INSERT or UPDATE of the store_token call of a
\* code-for-token exchange for user_id u
ExchangeStores(u) ==
    \E p \in Procs :
       /\ procs[p].pc = "selected"
       /\ procs'[p].pc \in {"inserted", "updated"}
       /\ procs[p].user_id = u
       /\ procs[p].caller.kind = "service"
       /\ procs[p].caller.request.method = "exchange_code_for_token"

StoreErrors == {StoreFaultMsg, "IntegrityError", "NoResultFound", "InvalidRequestError"}

\* C20: an exchange whose token exchange with the provider succeeded and
\* whose store_token did not raise returns success = true, whatever the
\* outcome of the email lookup; the record is stored, and its email, like
\* the email of the response, is the one looked up, or absent when the
\* lookup failed.
C20_EmailBestEffort ==
    (/\ ret.op = "handle_request"
     /\ ret.method = "exchange_code_for_token"
     /\ Len(ret.calls) = 2
     /\ ret.calls[1].outcome = "ok"
     /\ ret.caught \notin StoreErrors)
       => LET u     == DictGet(ret.params, "user_id", "default_user")
              email == IF ret.calls[2].outcome = "ok" THEN "a@example.com" ELSE None
          IN  /\ ret.response.success
              /\ ret.response.error = None
              /\ ret.response.data.email = email
              /\ GetToken(rows, u) # NoToken
              /\ GetToken(rows, u).email = email

\* an exchange returned success although its email lookup was refused, and
\* the record was stored without an email
C20_Witness ==
    /\ ret.op = "handle_request"
    /\ ret.method = "exchange_code_for_token"
    /\ Len(ret.calls) = 2
    /\ ret.calls[2].outcome = "403"
    /\ ret.response.success
    /\ ret.response.data.email = None
    /\ GetToken(rows, ret.response.data.user_id).email = None

\* C21: a fault of the token store during an operation comes back to the
\* caller as a failure response that carries the fault's message:
\* LinkedInService.handle_request returns success = false with it, and no
\* method of LinkedInAPI lets it propagate as an exception or answers with
\* success.
C21_StoreFaultSurfaced ==
    /\ (ret.op = "handle_request" /\ ret.caught \in StoreErrors)
          => /\ ~ret.raised
             /\ ret.response = ServiceResponse(FALSE, NoData, "LinkedIn API error: " \o ret.caught)
    /\ ret.op = "LinkedInAPI" => ~(ret.raised /\ ret.msg \in StoreErrors)

\* C22: when the service registered under the requested name returns a
\* response without raising, ServiceRegistry.handle_request returns exactly
\* that response, has invoked that service once and no other service, and
\* no step of the call changes the table of the registry.
C22_PassThrough ==
    [][/\ (ret'.op = "registry.handle_request" /\ ret'.invoked # <<>> /\ ~ret'.inner.raised)
             => /\ ~ret'.raised
                /\ ret'.response = ret'.inner.response
                /\ Len(ret'.invoked) = 1
                /\ ret'.invoked[1].name = ret'.service_name
                /\ procs' = procs => ret'.invoked[1] = services[ret'.service_name]
                /\ procs' # procs => ret'.invoked[1] = procs[1].caller.service
       /\ (ret'.op = "registry.handle_request" \/ procs' # procs) => services' = services]_vars

\* the registry returned the failure response of the service registered as
\* "other" as it is, while a LinkedIn service is registered beside it
C22_Witness ==
    /\ ret.op = "registry.handle_request"
    /\ ret.service_name = "other"
    /\ ret.invoked = <<[name |-> "other", impl |-> "Stub"]>>
    /\ "linkedin" \in DOMAIN services
    /\ ~ret.inner.raised
    /\ ret.response = ServiceResponse(FALSE, NoData, "stub failure")

\* C23: register_service(s) makes get_service(s.name) return s, also when the
\* name was present, and changes no other name; unregister_service(n) makes
\* get_service(n) absent, changes no other name, and changes nothing when n
\* was absent; no other operation changes the table.  get_service returns the
\* entry of the table or nothing, and list_services and the keys of
\* get_all_methods are the names get_service finds, each with the
\* get_available_methods of its service.
C23_RegistryTable ==
    [][/\ ret'.op = "register_service" =>
             /\ GetService(services', ret'.service.name) = ret'.service
             /\ \A n \in ServiceNames \ {ret'.service.name} :
                   GetService(services', n) = GetService(services, n)
       /\ ret'.op = "unregister_service" =>
             /\ GetService(services', ret'.service_name) = NoService
             /\ \A n \in ServiceNames \ {ret'.service_name} :
                   GetService(services', n) = GetService(services, n)
             /\ GetService(services, ret'.service_name) = NoService => services' = services
       /\ ret'.op \notin {"register_service", "unregister_service"} => services' = services
       /\ ret'.op = "get_service" =>
             /\ ret'.service_name \in DOMAIN services => ret'.result = services[ret'.service_name]
             /\ ret'.service_name \notin DOMAIN services => ret'.result = NoService
       /\ ret'.op = "list_services" =>
             ret'.result = {n \in ServiceNames : GetService(services, n) # NoService}
       /\ ret'.op = "get_all_methods" =>
             /\ DOMAIN ret'.result = {n \in ServiceNames : GetService(services, n) # NoService}
             /\ \A n \in DOMAIN ret'.result :
                   ret'.result[n] = GetAvailableMethods(GetService(services, n))]_vars

\* get_service("linkedin") returned the stand-in service registered under
\* that name, the only name in the table
C23_Witness ==
    /\ ret.op = "get_service"
    /\ ret.service_name = "linkedin"
    /\ ret.result = [name |-> "linkedin", impl |-> "Stub"]
    /\ DOMAIN services = {"linkedin"}

\* C24: every store_token(u, p) call, whatever store_token and delete_token
\* calls on the same user_id run concurrently with it, completes without
\* raising and returns a record of u whose access_token is p.access_token.
C24_ReturnsOwnWrite ==
    ret.op = "store_token" =>
        /\ ret.raised = None
        /\ ret.result # NoToken
        /\ ret.result.user_id = ret.user_id
        /\ ret.result.access_token = ret.token_data["access_token"]

\* the step is the committed INSERT or UPDATE of the store_token call of an
\* exchange_code_for_token request, and it leaves the records of every
\* user_id other than the one of the request as they are
ExchangeWrites ==
    \E p \in Procs :
       /\ procs[p].pc = "selected"
       /\ procs'[p].pc \in {"inserted", "updated"}
       /\ procs[p].caller.kind = "service"
       /\ procs[p].caller.request.method = "exchange_code_for_token"
       /\ LET u == DictGet(procs[p].caller.request.parameters, "user_id", "default_user")
          IN  {r \in rows' : r.user_id # u} = {r \in rows : r.user_id # u}

\* the frame of the service operations: the table changes only in the write
\* of an exchange, which touches the records of its own user_id only, and a
\* request for any other operation returns without a change of the table
\* and without a store_token call
ServiceFrame ==
    /\ rows' # rows => ExchangeWrites
    /\ (ret'.op = "handle_request" /\ ret'.method # "exchange_code_for_token")
          => UNCHANGED <<rows, procs>>

\* the step in which an exchange whose store_token has committed its write
\* returns
WrittenExchangeReturns ==
    /\ procs[1].pc \in {"inserted", "updated"}
    /\ procs[1].caller.kind = "service"
    /\ procs'[1].pc = "idle"
    /\ ret'.op = "handle_request"

C26_AdvertisedIsDispatched ==
    ret.op = "handle_request" =>
        LET advertised == {AvailableMethods[i] : i \in DOMAIN AvailableMethods}
            unknown    == ServiceResponse(FALSE, NoData, "Unknown method: " \o ret.method)
        IN  /\ ret.method \in advertised => ret.response # unknown
            /\ ret.method \notin advertised => ret.response = unknown

\* search_jobs, the last name of the list, reached the SDK, and the list has
\* twelve names
C26_Witness ==
    /\ ret.op = "handle_request"
    /\ ret.method = AvailableMethods[Len(AvailableMethods)]
    /\ Len(AvailableMethods) = 12
    /\ ret.calls # <<>>
    /\ ret.calls[1].endpoint = "search_job"

\* C27: store_token(u, p, email) computes expires_at as the time of the call
\* plus p.expires_in, or as absent when p has no expires_in, and the record
\* of u it then writes has that expires_at and the access_token,
\* refresh_token, token_type, scope and email of this call (refresh_token,
\* scope and email absent when not supplied, token_type Bearer), whatever
\* the record held before: only user_id and created_at carry over.  (An
\* UPDATE whose row a concurrent delete_token has removed writes no record.)
C27_StoredFields ==
    [][\A p \in Procs :
          /\ (procs[p].pc = "idle" /\ procs'[p].pc = "selected") =>
                procs'[p].expires_at =
                   IF "expires_in" \in DOMAIN procs'[p].token_data
                   THEN now + procs'[p].token_data["expires_in"]
                   ELSE NULL
          /\ (/\ procs[p].pc = "selected"
              /\ \/ procs'[p].pc = "inserted"
                 \/ procs'[p].pc = "updated" /\ GetToken(rows, procs[p].user_id) # NoToken) =>
                LET u  == procs[p].user_id
                    td == procs[p].token_data
                    r  == GetToken(rows', u)
                IN  /\ r # NoToken
                    /\ r.expires_at = procs[p].expires_at
                    /\ r.access_token = td["access_token"]
                    /\ r.refresh_token = (IF "refresh_token" \in DOMAIN td
                                          THEN td["refresh_token"] ELSE None)
                    /\ r.scope = (IF "scope" \in DOMAIN td THEN td["scope"] ELSE None)
                    /\ r.token_type = (IF "token_type" \in DOMAIN td
                                       THEN td["token_type"] ELSE "Bearer")
                    /\ r.email = procs[p].email
                    /\ procs'[p].pc = "updated" =>
                          r.created_at = GetToken(rows, u).created_at]_vars

\* store_token("alice", PayloadB, no email) has returned the record it wrote
\* over an earlier one: no refresh_token, no scope, no email, no expires_at
C27_Witness ==
    /\ ret.op = "store_token"
    /\ ret.raised = None
    /\ ret.token_data = PayloadB
    /\ ret.result.access_token = PayloadB["access_token"]
    /\ ret.result.created_at < ret.result.updated_at
    /\ ret.result.refresh_token = None
    /\ ret.result.scope = None
    /\ ret.result.email = None
    /\ ret.result.expires_at = NULL

\* the exchange that has just returned had no code, or its token exchange
\* with the provider failed
ExchangeFailed(r) ==
    \/ /\ r.op = "handle_request"
       /\ r.method = "exchange_code_for_token"
       /\ \/ ~Truthy(DictGet(r.params, "code", None))
          \/ r.calls # <<>> /\ r.calls[1].outcome # "ok"
    \/ /\ r.op = "LinkedInAPI"
       /\ r.method = "exchange_code_for_token"
       /\ r.calls[1].outcome # "ok"

\* C28: an exchange of LinkedInService or of LinkedInAPI whose code is
\* missing or whose token exchange with the provider fails reports the
\* failure and neither writes the table nor starts a store_token call, so
\* that get_token and get_valid_token of its user_id answer as before; and
\* every write of an exchange belongs to a request that had a code and whose
\* token exchange succeeded.
C28_FailedExchangeNoWrite ==
    [][/\ ExchangeFailed(ret') =>
             /\ ret'.raised \/ ~ret'.response.success
             /\ UNCHANGED <<rows, procs>>
             /\ \A u \in Users :
                   /\ GetToken(rows', u) = GetToken(rows, u)
                   /\ GetValidToken(rows', u, now') = GetValidToken(rows, u, now)
       /\ \A p \in Procs :
             (procs[p].pc = "selected" /\ procs'[p].pc \in {"inserted", "updated"}) =>
                /\ procs[p].caller.calls[1].outcome = "ok"
                /\ procs[p].caller.kind = "service" =>
                      Truthy(DictGet(procs[p].caller.request.parameters, "code", None))]_vars

\* the exchange {code: "abc123", user_id: "alice"} failed at the provider
\* while alice has a record of an earlier exchange
C28_Witness ==
    /\ ret.op = "handle_request"
    /\ ret.method = "exchange_code_for_token"
    /\ ret.params = [code |-> "abc123", user_id |-> "alice"]
    /\ ret.calls[1].outcome = "error"
    /\ ~ret.response.success
    /\ GetToken(rows, "alice") # NoToken

\* C29: a sweep at instant t removes a record iff the expiry test of
\* get_valid_token rejects it at t (expires_at set and expires_at <= t): it
\* removes no record get_valid_token would return, and right after it
\* get_valid_token returns every record that is left.
C29_SameBoundary ==
    [][ret'.op = "cleanup_expired_tokens" =>
          /\ \A r \in rows :
                /\ r \notin rows' <=> IsExpired(r, now)
                /\ r \notin rows' <=> (r.expires_at # NULL /\ r.expires_at <= now)
                /\ r \notin rows' => GetValidToken(rows, r.user_id, now) = NoToken
                /\ GetValidToken(rows, r.user_id, now) = r => r \in rows'
          /\ rows' \subseteq rows
          /\ \A r \in rows' : GetValidToken(rows', r.user_id, now') = r]_vars

\* a sweep removed one record and kept one that expires at a later instant
C29_Witness ==
    /\ ret.op = "cleanup_expired_tokens"
    /\ ret.result = 1
    /\ \E r \in rows : r.expires_at # NULL /\ r.expires_at > now

\* C30: _database_initialized changes only from false to true, and only in
\* the step in which a call's init_database has returned without raising; a
\* call invokes init_database only when it finds the flag false, and a call
\* that finds it true returns without invoking it; an init_database that
\* raises leaves the flag as it is and the call returns normally; while the
\* flag is false a call does not return without having invoked
\* init_database, so the next call tries again.
C30_InitOnce ==
    [][/\ database_initialized' # database_initialized =>
             /\ ~database_initialized
             /\ database_initialized'
             /\ ret'.op = "ensure_database_initialized"
             /\ ret'.invoked
             /\ ~ret'.failed
       /\ \A p \in Procs :
             (procs[p].pc # "initializing" /\ procs'[p].pc = "initializing")
                => ~database_initialized
       /\ ret'.op = "ensure_database_initialized" =>
             /\ ~ret'.raised
             /\ ~ret'.invoked => database_initialized /\ database_initialized'
             /\ ret'.failed => database_initialized' = database_initialized
             /\ (ret'.invoked /\ ~ret'.failed) => database_initialized'
             /\ ~database_initialized => ret'.invoked]_vars

\* a call whose init_database raised has returned, the flag is still false,
\* and another call is awaiting init_database
C30_Witness ==
    /\ ret.op = "ensure_database_initialized"
    /\ ret.invoked
    /\ ret.failed
    /\ ~database_initialized
    /\ \E p \in Procs : procs[p].pc = "initializing"
====
